---- MODULE Spec2Model ----
(***************************************************************************)
(* Model of Silence.py: the silence-trimming pipeline.                     *)
(*                                                                         *)
(*   detect_silence -> get_video_duration -> compute_nonsilent_intervals   *)
(*   -> cut_video_segments -> concat_segments                              *)
(*                                                                         *)
(* Time is counted in integer ticks (one tick = 0.1 s, so the default      *)
(* min_gap of 0.1 s is one tick); the interval arithmetic of the source    *)
(* uses only subtraction and comparison, which the ticks keep exact.       *)
(* The external tools (ffmpeg, ffprobe) are the environment: their exit    *)
(* status and their output are chosen nondeterministically.                *)
(***************************************************************************)
EXTENDS Integers, Sequences, FiniteSets, TLC

\* ---------------------------------------------------------------- bounds
MaxT == 5
MaxStamp == 3
MaxLines == 4
MaxGap == 2
MaxSil == 2

\* min_gap: float = 0.1, in ticks
DefaultMinGap == 1

VARIABLES
    pc,                  \* position of main()
    output,              \* detect_silence: result.stderr split into lines
    silence_intervals,   \* main: silence_intervals
    duration_str,        \* get_video_duration: result.stdout.strip()
    video_duration,      \* main: video_duration
    min_gap,             \* compute_nonsilent_intervals: min_gap
    nonsilent_intervals, \* main: nonsilent_intervals
    temp_dir,            \* "none" | "exists" | "removed"
    temp_segments,       \* indices idx whose segment_{idx}.mp4 is in temp_dir
    list_file,           \* content of temp_dir/segments.txt
    list_file_exists,    \* segments.txt is in temp_dir
    list_file_written,   \* history: segments.txt was written in this run
    segment_files,       \* cut_video_segments: segment_files
    output_file,         \* "absent" | "partial" | "written"
    calls,               \* history: the external invocations, in order
    exit_status          \* -1 while running, else the process exit status

vars == <<pc, output, silence_intervals, duration_str, video_duration, min_gap,
          nonsilent_intervals, temp_dir, temp_segments, list_file,
          list_file_exists, list_file_written, segment_files, output_file,
          calls, exit_status>>

Min(a, b) == IF a < b THEN a ELSE b

Range(s) == {s[i] : i \in 1..Len(s)}

\* ------------------------------------------------- the detector's output
\* A timestamp as the detector prints it: an optional sign and a decimal.
Timestamps ==
    [sign : {""}, digits : 0..MaxStamp] \cup {[sign |-> "-", digits |-> 1]}

\* The number a printed timestamp denotes.
TimestampValue(ts) == IF ts.sign = "-" THEN 0 - ts.digits ELSE ts.digits

\* A line of stderr: a silence_start line, a silence_end line, or any other.
OtherLine == [marker |-> "none", ts |-> [sign |-> "", digits |-> 0]]

Lines ==
    [marker : {"silence_start", "silence_end"}, ts : Timestamps] \cup {OtherLine}

Logs == UNION {[1..n -> Lines] : n \in 0..MaxLines}

\* "silence_start" in line
Contains(line, word) == line.marker = word

\* re.search(r"silence_start:\s?(\d+\.?\d*)", line): the group, or <<>> for
\* None.  After the colon and an optional blank the pattern needs a digit,
\* so a signed timestamp does not match.
re_search(line) == IF line.ts.sign = "" THEN <<line.ts.digits>> ELSE <<>>

\* One pass of the loop over output.splitlines(); two ifs, not if/elif.
ScanLine_swapped(acc, line) ==
    LET m == re_search(line)
        a1 == IF Contains(line, "silence_start") /\ m # <<>>
              THEN [acc EXCEPT !.ends = Append(@, m[1])]
              ELSE acc
    IN  IF Contains(line, "silence_end") /\ m # <<>>
        THEN [a1 EXCEPT !.starts = Append(@, m[1])]
        ELSE a1

ScanLine(acc, line) ==
    LET m == re_search(line)
        a1 == IF Contains(line, "silence_start") /\ m # <<>>
              THEN [acc EXCEPT !.starts = Append(@, m[1])]
              ELSE acc
    IN  IF Contains(line, "silence_end") /\ m # <<>>
        THEN [a1 EXCEPT !.ends = Append(@, m[1])]
        ELSE a1

RECURSIVE ScanLines(_, _)
ScanLines(lines, n) ==
    IF n = 0 THEN [starts |-> <<>>, ends |-> <<>>]
    ELSE ScanLine(ScanLines(lines, n - 1), lines[n])

\* for i in range(min(len(silence_starts), len(silence_ends)))
PairIntervals_short(silence_starts, silence_ends) ==
    [i \in 1..(Min(Len(silence_starts), Len(silence_ends)) - 1) |->
        <<silence_starts[i], silence_ends[i]>>]

PairIntervals(silence_starts, silence_ends) ==
    [i \in 1..Min(Len(silence_starts), Len(silence_ends)) |->
        <<silence_starts[i], silence_ends[i]>>]

detect_silence(lines) ==
    LET acc == ScanLines(lines, Len(lines))
    IN  PairIntervals(acc.starts, acc.ends)

\* ------------------------------------------------------ the duration probe
DurationStrings ==
    {[text |-> "number", value |-> d] : d \in 0..MaxT}
        \cup {[text |-> "N/A", value |-> 0]}

\* float(duration_str): <<value>>, or <<>> for ValueError
float(s) == IF s.text = "number" THEN <<s.value>> ELSE <<>>

\* ------------------------------------------------------------------ invert
\* start - prev_end > min_gap
KeepsGap_orEqual(start, prev_end, gap) == start - prev_end >= gap

KeepsGap(start, prev_end, gap) == start - prev_end > gap

\* The body of the loop over silence_intervals.
InvertStep_stale(acc, silence, gap) ==
    [intervals |-> IF KeepsGap(silence[1], acc.prev_end, gap)
                   THEN Append(acc.intervals, <<acc.prev_end, silence[1]>>)
                   ELSE acc.intervals,
     prev_end |-> acc.prev_end]

InvertStep(acc, silence, gap) ==
    [intervals |-> IF KeepsGap(silence[1], acc.prev_end, gap)
                   THEN Append(acc.intervals, <<acc.prev_end, silence[1]>>)
                   ELSE acc.intervals,
     prev_end |-> silence[2]]

RECURSIVE InvertScan(_, _, _)
InvertScan(silences, n, gap) ==
    IF n = 0 THEN [intervals |-> <<>>, prev_end |-> 0]
    ELSE InvertStep(InvertScan(silences, n - 1, gap), silences[n], gap)

compute_nonsilent_intervals_notail(silences, duration, gap) ==
    InvertScan(silences, Len(silences), gap).intervals

compute_nonsilent_intervals(silences, duration, gap) ==
    LET acc == InvertScan(silences, Len(silences), gap)
    IN  IF KeepsGap(duration, acc.prev_end, gap)
        THEN Append(acc.intervals, <<acc.prev_end, duration>>)
        ELSE acc.intervals

\* ------------------------------------------------------- external calls
\* How a subprocess.run ended: exit status 0, a non-zero exit status, or the
\* executable could not be started.
RunOutcomes == {"ok", "nonzero", "nolaunch"}

\* subprocess.run(cmd, check=...) raises: FileNotFoundError when the tool
\* cannot be started, CalledProcessError on a non-zero exit when check=True.
Raises_launchOnly(check, rc) == rc = "nolaunch"

Raises(check, rc) == rc = "nolaunch" \/ (check /\ rc = "nonzero")

Call(tool, idx, start, end, rc) ==
    [tool |-> tool, idx |-> idx, start |-> start, end |-> end, rc |-> rc]

\* if not nonsilent_intervals
IsEmptyPlan_never(intervals) == FALSE

IsEmptyPlan(intervals) == intervals = <<>>

\* The file list written by concat_segments, one line per segment, in order.
ManifestLines_reversed(files) ==
    [i \in 1..Len(files) |-> files[Len(files) + 1 - i]]

ManifestLines(files) == files

\* Leaving "with tempfile.TemporaryDirectory() as temp_dir", normally or by an
\* exception: the directory and everything in it are removed.
TemporaryDirectory_exit_onSuccessOnly(raised, fs) ==
    IF raised /\ fs.dir = "exists" THEN fs
    ELSE [dir |-> IF fs.dir = "exists" THEN "removed" ELSE fs.dir,
          segments |-> {}, list_exists |-> FALSE, list |-> <<>>]

TemporaryDirectory_exit(raised, fs) ==
    [dir |-> IF fs.dir = "exists" THEN "removed" ELSE fs.dir,
     segments |-> {}, list_exists |-> FALSE, list |-> <<>>]

\* An uncaught exception inside the with block: the directory holding the
\* files fs is released and the interpreter exits with status 1.
Unwind(fs) ==
    LET after == TemporaryDirectory_exit(TRUE, fs)
    IN  /\ temp_dir' = after.dir
        /\ temp_segments' = after.segments
        /\ list_file_exists' = after.list_exists
        /\ list_file' = after.list
        /\ pc' = "aborted"
        /\ exit_status' = 1

\* ------------------------------------------------------------------- main
Init ==
    /\ pc = "detect"
    /\ output = <<>>
    /\ silence_intervals = <<>>
    /\ duration_str = [text |-> "N/A", value |-> 0]
    /\ video_duration = -1
    /\ min_gap = DefaultMinGap
    /\ nonsilent_intervals = <<>>
    /\ temp_dir = "none"
    /\ temp_segments = {}
    /\ list_file = <<>>
    /\ list_file_exists = FALSE
    /\ list_file_written = FALSE
    /\ segment_files = <<>>
    /\ output_file = "absent"
    /\ calls = <<>>
    /\ exit_status = -1

\* silence_intervals = detect_silence(...): run ffmpeg (no check=True), then
\* parse its stderr.
DetectSilence ==
    /\ pc = "detect"
    /\ \E stderr \in Logs, rc \in RunOutcomes :
        /\ calls' = Append(calls, Call("detector", -1, -1, -1, rc))
        /\ IF Raises(FALSE, rc)
           THEN /\ pc' = "aborted"
                /\ exit_status' = 1
                /\ UNCHANGED <<output, silence_intervals>>
           ELSE /\ output' = stderr
                /\ silence_intervals' = detect_silence(stderr)
                /\ pc' = "report"
                /\ UNCHANGED exit_status
    /\ UNCHANGED <<duration_str, video_duration, min_gap, nonsilent_intervals,
                   temp_dir, temp_segments, list_file, list_file_exists,
                   list_file_written, segment_files, output_file>>

\* main prints the detected intervals; the stderr text of detect_silence is
\* gone once the function has returned.
ReportSilence ==
    /\ pc = "report"
    /\ output' = <<>>
    /\ pc' = "probe"
    /\ UNCHANGED <<silence_intervals, duration_str, video_duration, min_gap,
                   nonsilent_intervals, temp_dir, temp_segments, list_file,
                   list_file_exists, list_file_written, segment_files,
                   output_file, calls, exit_status>>

\* video_duration = get_video_duration(input_file): run ffprobe (no
\* check=True); sys.exit(1) when its stdout is not a number.
GetVideoDuration ==
    /\ pc = "probe"
    /\ \E rc \in RunOutcomes :
        /\ calls' = Append(calls, Call("probe", -1, -1, -1, rc))
        /\ IF Raises(FALSE, rc)
           THEN /\ pc' = "aborted"
                /\ exit_status' = 1
                /\ UNCHANGED <<duration_str, video_duration>>
           ELSE \E stdout \in DurationStrings :
                /\ duration_str' = stdout
                /\ IF float(stdout) = <<>>
                   THEN /\ pc' = "exited"
                        /\ exit_status' = 1
                        /\ UNCHANGED video_duration
                   ELSE /\ video_duration' = float(stdout)[1]
                        /\ pc' = "invert"
                        /\ UNCHANGED exit_status
    /\ UNCHANGED <<output, silence_intervals, min_gap, nonsilent_intervals, temp_dir,
                   temp_segments, list_file, list_file_exists,
                   list_file_written, segment_files, output_file>>

\* nonsilent_intervals = compute_nonsilent_intervals(silence_intervals,
\*                                                   video_duration)
ComputeNonsilent ==
    /\ pc = "invert"
    /\ nonsilent_intervals' =
           compute_nonsilent_intervals(silence_intervals, video_duration, min_gap)
    /\ pc' = "check"
    /\ UNCHANGED <<output, silence_intervals, duration_str, video_duration,
                   min_gap, temp_dir, temp_segments, list_file,
                   list_file_exists, list_file_written, segment_files,
                   output_file, calls, exit_status>>

\* if not nonsilent_intervals: print(...); sys.exit(1)
ExitNoIntervals ==
    /\ pc = "check"
    /\ IsEmptyPlan(nonsilent_intervals)
    /\ pc' = "exited"
    /\ exit_status' = 1
    /\ UNCHANGED <<output, silence_intervals, duration_str, video_duration,
                   min_gap, nonsilent_intervals, temp_dir, temp_segments,
                   list_file, list_file_exists, list_file_written,
                   segment_files, output_file, calls>>

\* with tempfile.TemporaryDirectory() as temp_dir:
EnterTempDir ==
    /\ pc = "check"
    /\ ~IsEmptyPlan(nonsilent_intervals)
    /\ temp_dir' = "exists"
    /\ pc' = "cut"
    /\ UNCHANGED <<output, silence_intervals, duration_str, video_duration,
                   min_gap, nonsilent_intervals, temp_segments, list_file,
                   list_file_exists, list_file_written, segment_files,
                   output_file, calls, exit_status>>

\* One pass of the loop of cut_video_segments: idx is the next index of
\* enumerate(intervals); subprocess.run(cmd, check=True).  A failed ffmpeg may
\* or may not leave a partial segment file behind.
CutSegment ==
    /\ pc = "cut"
    /\ Len(segment_files) < Len(nonsilent_intervals)
    /\ LET idx == Len(segment_files)
           interval == nonsilent_intervals[idx + 1]
       IN  \E rc \in RunOutcomes, partial \in BOOLEAN :
            /\ calls' = Append(calls,
                   Call("extractor", idx, interval[1], interval[2], rc))
            /\ IF Raises(TRUE, rc)
               THEN /\ Unwind([dir |-> temp_dir,
                               segments |-> IF partial
                                            THEN temp_segments \cup {idx}
                                            ELSE temp_segments,
                               list_exists |-> list_file_exists,
                               list |-> list_file])
                    /\ UNCHANGED segment_files
               ELSE /\ temp_segments' = temp_segments \cup {idx}
                    /\ segment_files' = Append(segment_files, idx)
                    /\ UNCHANGED <<pc, exit_status, temp_dir, list_file,
                                   list_file_exists>>
    /\ UNCHANGED <<output, silence_intervals, duration_str, video_duration,
                   min_gap, nonsilent_intervals, list_file_written,
                   output_file>>

\* cut_video_segments returns; concat_segments writes segments.txt.
WriteListFile ==
    /\ pc = "cut"
    /\ Len(segment_files) = Len(nonsilent_intervals)
    /\ list_file' = ManifestLines(segment_files)
    /\ list_file_exists' = TRUE
    /\ list_file_written' = TRUE
    /\ pc' = "concat"
    /\ UNCHANGED <<output, silence_intervals, duration_str, video_duration,
                   min_gap, nonsilent_intervals, temp_dir, temp_segments,
                   segment_files, output_file, calls, exit_status>>

\* concat_segments: subprocess.run(cmd, check=True).  A failed ffmpeg may or
\* may not leave a partial output file behind.
ConcatSegments ==
    /\ pc = "concat"
    /\ \E rc \in RunOutcomes, partial \in BOOLEAN :
        /\ calls' = Append(calls, Call("concat", -1, -1, -1, rc))
        /\ IF Raises(TRUE, rc)
           THEN /\ Unwind([dir |-> temp_dir, segments |-> temp_segments,
                           list_exists |-> list_file_exists,
                           list |-> list_file])
                /\ output_file' = IF partial /\ rc = "nonzero"
                                  THEN "partial" ELSE output_file
           ELSE /\ output_file' = "written"
                /\ pc' = "with_exit"
                /\ UNCHANGED <<exit_status, temp_dir, temp_segments, list_file,
                               list_file_exists>>
    /\ UNCHANGED <<output, silence_intervals, duration_str, video_duration,
                   min_gap, nonsilent_intervals, list_file_written,
                   segment_files>>

\* The with block ends; print("Output video written to ...").
ExitTempDir ==
    /\ pc = "with_exit"
    /\ LET after == TemporaryDirectory_exit(FALSE,
                        [dir |-> temp_dir, segments |-> temp_segments,
                         list_exists |-> list_file_exists, list |-> list_file])
       IN  /\ temp_dir' = after.dir
           /\ temp_segments' = after.segments
           /\ list_file_exists' = after.list_exists
           /\ list_file' = after.list
    /\ pc' = "done"
    /\ exit_status' = 0
    /\ UNCHANGED <<output, silence_intervals, duration_str, video_duration,
                   min_gap, nonsilent_intervals, list_file_written,
                   segment_files, output_file, calls>>

Next ==
    \/ DetectSilence
    \/ ReportSilence
    \/ GetVideoDuration
    \/ ComputeNonsilent
    \/ ExitNoIntervals
    \/ EnterTempDir
    \/ CutSegment
    \/ WriteListFile
    \/ ConcatSegments
    \/ ExitTempDir

Spec == Init /\ [][Next]_vars

\* ------------------------------------ compute_nonsilent_intervals alone
\* The inputs of the pure function: any list, ordered or not, overlapping or
\* not, of up to MaxSil intervals (start, end) with start < end, any duration
\* and any min_gap within the bounds.
Intervals == {iv \in (0..MaxT) \X (0..MaxT) : iv[1] < iv[2]}

SilenceLists == UNION {[1..n -> Intervals] : n \in 0..MaxSil}

InitInvert ==
    /\ pc = "invert"
    /\ output = <<>>
    /\ silence_intervals \in SilenceLists
    /\ duration_str = [text |-> "N/A", value |-> 0]
    /\ video_duration \in 0..MaxT
    /\ min_gap \in 0..MaxGap
    /\ nonsilent_intervals = <<>>
    /\ temp_dir = "none"
    /\ temp_segments = {}
    /\ list_file = <<>>
    /\ list_file_exists = FALSE
    /\ list_file_written = FALSE
    /\ segment_files = <<>>
    /\ output_file = "absent"
    /\ calls = <<>>
    /\ exit_status = -1

NextInvert == ComputeNonsilent

SpecInvert == InitInvert /\ [][NextInvert]_vars

\* ================================================================ claims
\* A SilenceReport that invert accepts: every interval has 0 <= start < end,
\* and each interval ends no later than the next one starts.
ValidSilence(s) ==
    /\ \A i \in 1..Len(s) : 0 <= s[i][1] /\ s[i][1] < s[i][2]
    /\ \A i \in 1..(Len(s) - 1) : s[i][2] <= s[i + 1][1]

\* The i-th candidate gap of the sweep, 1 <= i <= Len(s) + 1: from the end of
\* the silence before it (or 0) to the start of the next (or the duration).
GapAt(s, duration, i) ==
    <<IF i = 1 THEN 0 ELSE s[i - 1][2],
      IF i = Len(s) + 1 THEN duration ELSE s[i][1]>>

LongerThan(g, gap) == g[2] - g[1] > gap

\* C1: for a valid silence list, any duration and any min_gap >= 0, the
\* intervals returned by compute_nonsilent_intervals are strictly increasing,
\* each ends no later than the next starts, and each is longer than min_gap.
C1_KeepPlanOrdered ==
    (pc = "check" /\ ValidSilence(silence_intervals)) =>
        LET k == nonsilent_intervals
        IN  /\ \A i \in 1..Len(k) : k[i][2] - k[i][1] > min_gap
            /\ \A i \in 1..(Len(k) - 1) :
                   k[i][1] < k[i + 1][1] /\ k[i][2] <= k[i + 1][1]

C1_Witness ==
    /\ pc = "check"
    /\ ValidSilence(silence_intervals)
    /\ Len(silence_intervals) = 2
    /\ Len(nonsilent_intervals) >= 2

\* C8: the min_gap test is strict: a candidate gap is returned exactly when
\* its length is greater than min_gap, so a gap of length min_gap is dropped.
C8_StrictMinGap ==
    pc = "check" =>
        \A i \in 1..(Len(silence_intervals) + 1) :
            LET g == GapAt(silence_intervals, video_duration, i)
            IN  (g \in Range(nonsilent_intervals)) <=> (g[2] - g[1] > min_gap)

C8_Witness ==
    /\ pc = "check"
    /\ min_gap > 0
    /\ \E i \in 1..(Len(silence_intervals) + 1) :
           LET g == GapAt(silence_intervals, video_duration, i)
           IN  g[2] - g[1] = min_gap /\ g \notin Range(nonsilent_intervals)
    /\ \E i \in 1..(Len(silence_intervals) + 1) :
           LET g == GapAt(silence_intervals, video_duration, i)
           IN  g[2] - g[1] = min_gap + 1 /\ g \in Range(nonsilent_intervals)

\* A valid silence list that lies within [0, duration].
WithinDuration(s, duration) ==
    /\ ValidSilence(s)
    /\ \A i \in 1..Len(s) : s[i][2] <= duration

\* The reference complement: the candidate gaps in order, those longer than
\* min_gap only.
Complement(s, duration, gap) ==
    LET all == [i \in 1..(Len(s) + 1) |-> GapAt(s, duration, i)]
        Long(g) == LongerThan(g, gap)
    IN  SelectSeq(all, Long)

\* C9: for a valid silence list within [0, duration], the result is exactly
\* the reference complement; an empty list gives <<(0, duration)>> when the
\* duration exceeds min_gap and nothing otherwise; no returned interval meets
\* the interior of a silence or leaves [0, duration].
C9_ExactComplement ==
    (pc = "check" /\ WithinDuration(silence_intervals, video_duration)) =>
        /\ nonsilent_intervals =
               Complement(silence_intervals, video_duration, min_gap)
        /\ silence_intervals = <<>> =>
               nonsilent_intervals = IF video_duration > min_gap
                                     THEN << <<0, video_duration>> >>
                                     ELSE <<>>
        /\ \A k \in Range(nonsilent_intervals) :
               /\ 0 <= k[1] /\ k[2] <= video_duration
               /\ \A s \in Range(silence_intervals) :
                      k[2] <= s[1] \/ s[2] <= k[1]

C9_Witness ==
    /\ pc = "check"
    /\ WithinDuration(silence_intervals, video_duration)
    /\ Len(silence_intervals) = 2
    /\ Len(nonsilent_intervals) = 2
    /\ nonsilent_intervals[2][2] = video_duration

\* The lines of a log on which the parser finds a timestamp of the marker.
ParsedLines(log, word) ==
    {j \in 1..Len(log) : log[j].marker = word /\ re_search(log[j]) # <<>>}

\* The i-th smallest member of a set of line numbers.
NthLine(S, i) == CHOOSE j \in S : Cardinality({k \in S : k < j}) = i - 1

\* C7: detect_silence returns min(#starts, #ends) intervals, the i-th made of
\* the i-th parsed silence_start and the i-th parsed silence_end in log
\* order; surplus markers are dropped and, whatever the log, the run goes on
\* to the duration probe without an error.
C7_PositionalPairing ==
    /\ pc = "report" =>
        LET S == ParsedLines(output, "silence_start")
            E == ParsedLines(output, "silence_end")
            n == IF Cardinality(S) < Cardinality(E)
                 THEN Cardinality(S) ELSE Cardinality(E)
        IN  /\ Len(silence_intervals) = n
            /\ \A i \in 1..n :
                   silence_intervals[i] =
                       <<output[NthLine(S, i)].ts.digits,
                         output[NthLine(E, i)].ts.digits>>
    /\ (Len(calls) = 1 /\ calls[1].rc # "nolaunch") =>
           (pc \in {"report", "probe"} /\ exit_status = -1)

C7_Witness ==
    /\ pc = "report"
    /\ Cardinality(ParsedLines(output, "silence_start")) = 3
    /\ Cardinality(ParsedLines(output, "silence_end")) = 1
    /\ Len(silence_intervals) = 1

\* The marker lines of a log, in log order.
IsMarker(line) == line.marker # "none"

MarkerLines(log) == SelectSeq(log, IsMarker)

\* A log in chronological emission order, read strictly: the timestamps of
\* its marker lines increase from each line to the next.
Chronological(log) ==
    LET m == MarkerLines(log)
    IN  \A i \in 1..(Len(m) - 1) :
            TimestampValue(m[i].ts) < TimestampValue(m[i + 1].ts)

\* A log whose markers alternate start, end, start, ... beginning with a
\* start, with unsigned timestamps, each start before its end and each end
\* no later than the next start.
AlternatingLog(log) ==
    LET m == MarkerLines(log)
    IN  /\ \A i \in 1..Len(m) :
               /\ m[i].ts.sign = ""
               /\ m[i].marker = IF i % 2 = 1 THEN "silence_start"
                                ELSE "silence_end"
        /\ \A i \in 1..(Len(m) - 1) :
               IF i % 2 = 1
               THEN TimestampValue(m[i].ts) < TimestampValue(m[i + 1].ts)
               ELSE TimestampValue(m[i].ts) <= TimestampValue(m[i + 1].ts)

\* C10 as stated: for every log of silence_start and silence_end lines in
\* chronological order, the report of detect_silence is a valid input to
\* invert.
C10_Original ==
    (pc = "report" /\ Chronological(output)) => ValidSilence(silence_intervals)

\* C10 as amended: for every log whose markers alternate start/end beginning
\* with a start, carry unsigned timestamps and have each start strictly
\* before its end and each end no later than the next start, the report of
\* detect_silence is a valid input to invert.
C10_AlternatingLogValid ==
    (pc = "report" /\ AlternatingLog(output)) => ValidSilence(silence_intervals)

C10_Witness ==
    /\ pc = "report"
    /\ AlternatingLog(output)
    /\ Len(silence_intervals) = 2

\* ------------------------------------------------------- the whole run
Terminal == {"done", "exited", "aborted"}

\* The probe ran and printed something float() rejects.
ProbeUnparsable ==
    /\ Len(calls) >= 2
    /\ calls[2].rc # "nolaunch"
    /\ float(duration_str) = <<>>

\* compute_nonsilent_intervals has returned an empty KeepPlan.
EmptyPlanComputed ==
    /\ video_duration # -1
    /\ pc # "invert"
    /\ nonsilent_intervals = <<>>

CalledTools == {calls[i].tool : i \in 1..Len(calls)}

\* C2: an unparsable probe result or an empty KeepPlan ends the run with exit
\* status 1 before the extraction stage: no temporary directory, no
\* extractor or concatenator call, no manifest and no output file.
C2_EarlyExit ==
    /\ ProbeUnparsable => pc = "exited"
    /\ EmptyPlanComputed => pc \in {"check", "exited"}
    /\ pc = "exited" =>
           /\ exit_status = 1
           /\ temp_dir = "none"
           /\ temp_segments = {}
           /\ ~list_file_written
           /\ CalledTools \subseteq {"detector", "probe"}
           /\ output_file = "absent"

C2_Witness ==
    /\ pc = "exited"
    /\ EmptyPlanComputed
    /\ silence_intervals # <<>>
    /\ ValidSilence(silence_intervals)

\* C3: when the detector fails (it cannot be started, or it exits non-zero),
\* the run aborts there: no later external call is made and no output file
\* is written.
C3_DetectorFailureFatal ==
    (Len(calls) >= 1 /\ calls[1].rc # "ok") =>
        /\ Len(calls) = 1
        /\ pc = "aborted"
        /\ output_file = "absent"

\* C4: a non-zero exit of the extractor at index k or of the concatenator is
\* the last external call of the run, which aborts: after an extractor
\* failure no later segment exists, the manifest was never written and the
\* concatenator never ran; the run never reaches "done"; no call is repeated.
C4_FailFast ==
    /\ \A i \in 1..Len(calls) :
           (calls[i].tool \in {"extractor", "concat"} /\ calls[i].rc = "nonzero") =>
               /\ i = Len(calls)
               /\ pc = "aborted"
               /\ exit_status = 1
               /\ output_file # "written"
               /\ calls[i].tool = "extractor" =>
                      /\ Len(segment_files) = calls[i].idx
                      /\ ~list_file_written
                      /\ "concat" \notin CalledTools
    /\ \A i, j \in 1..Len(calls) :
           (calls[i].tool = calls[j].tool /\ calls[i].idx = calls[j].idx) => i = j

C4_Witness ==
    /\ pc = "aborted"
    /\ Len(calls) = 4
    /\ calls[4].tool = "extractor"
    /\ calls[4].idx = 1
    /\ calls[4].rc = "nonzero"
    /\ Len(nonsilent_intervals) = 3

\* C5: in every terminal state the temporary directory, the segment files
\* and the manifest do not exist.
C5_TempDirReleased ==
    pc \in Terminal =>
        /\ temp_dir # "exists"
        /\ temp_segments = {}
        /\ ~list_file_exists

C5_Witness ==
    /\ pc = "aborted"
    /\ temp_dir = "removed"
    /\ Len(segment_files) >= 1
    /\ calls[Len(calls)].tool = "extractor"

\* The external calls of a complete run over a KeepPlan of n intervals.
ExpectedCalls(n) ==
    [i \in 1..(n + 3) |->
        IF i = 1 THEN <<"detector", -1>>
        ELSE IF i = 2 THEN <<"probe", -1>>
        ELSE IF i = n + 3 THEN <<"concat", -1>>
        ELSE <<"extractor", i - 3>>]

====
